---- MODULE Spec2Model ----
(***************************************************************************)
(* Request authentication of the project-management backend:               *)
(*   config.py      resolved settings and the lazy Supabase client cache   *)
(*   middleware.py  HTTPBearer guard, _supabase_get_user, get_current_user *)
(*   routers/*.py   the protected handlers that call get_current_user      *)
(*   main.py        the exception handlers that shape the error response   *)
(* One request is served at a time: every handler is an `async def` whose  *)
(* body never suspends (get_current_user and the Supabase calls are        *)
(* synchronous), so the event loop runs a request to its response.  The    *)
(* client cache and the configuration outlive the requests.                *)
(***************************************************************************)
EXTENDS Naturals, Sequences, FiniteSets, TLC

(* Python's None, for every optional value of the model. *)
None == "None"

(* Python truthiness of an optional string: None and "" are falsy. *)
Truthy(v) == v \notin {None, ""}

----------------------------------------------------------------------------
(* Values the environment can resolve to (config.py:44-56). *)

UrlValues    == {None, "https://proj.supabase.co"}
KeyValues    == {None, "anon-key"}
SecretValues == {None, "s3cr3t"}
AlgValues    == {"HS256", "HS512"}

(* The handle create_client returns. *)
ClientHandle == "client"

(* HTTP statuses the code names. *)
HTTP_200 == 200
HTTP_201 == 201
HTTP_204 == 204
HTTP_400 == 400
HTTP_401 == 401
HTTP_404 == 404
HTTP_500 == 500
HTTP_503 == 503

----------------------------------------------------------------------------
(* Bearer tokens.  A token is what jwt.decode can tell about it: whether   *)
(* it parses as a JWS, the key and algorithm it was signed with, the exp,  *)
(* nbf and aud claims that decode validates, and the sub and email claims  *)
(* of its payload.                                                         *)

SigningKeys == {"s3cr3t", "other"}

BaseToken ==
    [fmt |-> "jwt", key |-> "s3cr3t", alg |-> "HS256", exp |-> "future",
     nbf |-> "absent", aud |-> None, sub |-> "user-1", email |-> "a@x.io"]

GarbageToken == [BaseToken EXCEPT !.fmt = "garbage"]

Tokens ==
    { BaseToken,
      GarbageToken,
      [BaseToken EXCEPT !.key = "other"],
      [BaseToken EXCEPT !.alg = "HS512"],
      [BaseToken EXCEPT !.exp = "past"],
      [BaseToken EXCEPT !.exp = "absent"],
      [BaseToken EXCEPT !.nbf = "future"],
      [BaseToken EXCEPT !.aud = "authenticated"],
      [BaseToken EXCEPT !.sub = None],
      [BaseToken EXCEPT !.sub = ""],
      [BaseToken EXCEPT !.email = None],
      [BaseToken EXCEPT !.sub = "user-2", !.email = "b@x.io"],
      [BaseToken EXCEPT !.key = "other", !.sub = None],
      [BaseToken EXCEPT !.exp = "past", !.sub = ""] }

(* The Authorization header of a request: absent, or a scheme and the      *)
(* credentials after it (possibly empty).                                  *)
NoHeader == [scheme |-> None, present |-> FALSE, token |-> GarbageToken]

Headers ==
    {NoHeader}
    \cup {[scheme |-> "Basic", present |-> TRUE, token |-> BaseToken]}
    \cup {[scheme |-> "Bearer", present |-> FALSE, token |-> GarbageToken]}
    \cup {[scheme |-> "Bearer", present |-> TRUE, token |-> t] : t \in Tokens}

(* What client.auth.get_user can produce: it raises, returns nothing,      *)
(* returns a response without a user, a response whose user object lacks   *)
(* the attributes read from it, or a response with a user.                 *)
ProviderUsers ==
    { [id |-> "user-1", email |-> "a@x.io", user_metadata |-> "meta-1"],
      [id |-> "user-9", email |-> None,     user_metadata |-> "meta-9"],
      [id |-> "",       email |-> "c@x.io", user_metadata |-> "meta-0"] }

NoUser == [id |-> None, email |-> None, user_metadata |-> None]

NoAnswer == [kind |-> "none", user |-> NoUser]

ProviderResponses ==
    { [kind |-> k, user |-> NoUser] :
          k \in {"raises", "no_response", "no_user", "malformed_user"} }
    \cup { [kind |-> "user", user |-> u] : u \in ProviderUsers }

----------------------------------------------------------------------------
VARIABLES
    SUPABASE_URL,     \* config.py:44
    SUPABASE_KEY,     \* config.py:45
    JWT_SECRET,       \* config.py:55
    JWT_ALGORITHM,    \* config.py:56
    supabase_client,  \* config.py:64  _supabase_client, the lazy cache
    supabase,         \* config.py:107 the handle bound at import time
    pc,               \* where the request in flight is
    endpoint,         \* the protected handler the request is routed to
    header,           \* its Authorization header
    credentials,      \* what the HTTPBearer guard hands to the handler
    client,           \* _supabase_get_user's local `client`
    providerResponse, \* what client.auth.get_user answered in this call
    supa_user,        \* get_current_user's local `supa_user`
    remoteOutcome,    \* how the remote tier of this call ended
    localOutcome,     \* how the local tier of this call ended
    decodeCalls,      \* jwt.decode invocations of this call
    log,              \* the tier events of this call, in order
    authResult,       \* what get_current_user returned or raised
    storeOps,         \* data-store / provider operations the handler issued
    response,         \* the HTTP response of the request
    bearerStatus,     \* status the installed HTTPBearer rejects with
    AUTH_CONFIGURED,  \* config.py:60
    config_loaded,    \* main.py:21/29
    routers_loaded,   \* main.py:32   the dict of load flags, in import order
    app,              \* main.py:108  the FastAPI application object
    registered,       \* main.py:228-257 the route groups included in app
    payload,          \* the body readiness_check returned, if it ran
    callers,          \* the concurrent callers of get_supabase_client
    created,          \* successful create_client calls so far
    returnedClients,  \* the clients get_supabase_client has returned so far
    failed,           \* some construction has failed so far
    calls,            \* calls of get_supabase_client begun so far
    environ,          \* os.environ when config.py is imported
    settings,         \* config.py:47-57 the other module constants
    tables,           \* rows of the data store, per table
    nextId,           \* next row id the data store hands out
    handled,          \* the last data operation a handler ran
    workers,           \* per worker: position in a settings handler
    now,              \* the clock, in minutes
    issued,           \* the token create_access_token returned, if any
    reset             \* the reset-password request being answered

config == <<SUPABASE_URL, SUPABASE_KEY, JWT_SECRET, JWT_ALGORITHM>>
call   == <<client, providerResponse, supa_user, remoteOutcome, localOutcome, decodeCalls, log,
            authResult>>
boot   == <<AUTH_CONFIGURED, config_loaded, routers_loaded, app, registered>>
accessor == <<callers, created, returnedClients, failed, calls>>
resolver == <<environ, settings>>
store == <<tables, nextId, handled, workers>>
session == <<now, issued, reset>>
vars   == <<config, supabase_client, supabase, pc, endpoint, header,
            credentials, call, storeOps, response, bearerStatus, boot,
            payload, accessor,
            resolver,
            store,
            session>>

----------------------------------------------------------------------------
(* config.py:68-102  get_supabase_client.  `built` is what the import of   *)
(* the supabase package and create_client do when they are reached.        *)

BuildOutcomes == {"ok", "import_fails", "create_fails"}

(* Variant of not_configured that refuses only when both are missing.      *)
not_configured_both_missing ==
    ~Truthy(SUPABASE_URL) /\ ~Truthy(SUPABASE_KEY)

(* config.py:87  if not SUPABASE_URL or not SUPABASE_KEY *)
not_configured ==
    ~Truthy(SUPABASE_URL) \/ ~Truthy(SUPABASE_KEY)

get_supabase_client(cache, built) ==
    IF cache # None
    THEN [raised |-> None, value |-> cache, cache |-> cache]
    ELSE IF not_configured
    THEN [raised |-> "ValueError", value |-> None, cache |-> cache]
    ELSE IF built = "import_fails"
    THEN [raised |-> "RuntimeError", value |-> None, cache |-> cache]
    ELSE IF built = "ok"
    THEN [raised |-> None, value |-> ClientHandle, cache |-> ClientHandle]
    ELSE [raised |-> "RuntimeError", value |-> None, cache |-> cache]

(* An optional dict is a set of at most one record: {} is None. *)

(* middleware.py:29-40  what _supabase_get_user makes of the provider's    *)
(* answer: a user dict, or None when the call raised, the response or its  *)
(* user is missing, or reading the user's attributes raised.               *)
supabase_user_of(resp) ==
    IF resp.kind = "user"
    THEN {[id |-> resp.user.id, email |-> resp.user.email,
           user_metadata |-> resp.user.user_metadata]}
    ELSE {}

(* Variant of returns_remote_user that also asks for a non-empty id. *)
returns_remote_user_with_id(u) == \E x \in u : Truthy(x.id)

(* middleware.py:65-66  `if supa_user: return supa_user`: a dict with keys *)
(* is truthy, None is not.                                                 *)
returns_remote_user(u) == u # {}

(* Variant of jwt_decode that does not look at exp (verify_exp off). *)
jwt_decode_no_exp(token, key, alg) ==
    IF \/ token.fmt # "jwt" \/ token.alg # alg \/ token.key # key
       \/ token.nbf = "future" \/ token.aud # None
    THEN [error |-> "InvalidTokenError", payload |-> None]
    ELSE [error |-> None,
          payload |-> [sub |-> token.sub, email |-> token.email]]

(* Variant of jwt_decode that does not verify the signature. *)
jwt_decode_no_signature(token, key, alg) ==
    IF \/ token.fmt # "jwt" \/ token.alg # alg \/ token.exp = "past"
       \/ token.nbf = "future" \/ token.aud # None
    THEN [error |-> "InvalidTokenError", payload |-> None]
    ELSE [error |-> None,
          payload |-> [sub |-> token.sub, email |-> token.email]]

(* jwt.decode(token, key, algorithms=[alg]) as called at middleware.py:76, *)
(* with PyJWT's default options: the token must parse, its header          *)
(* algorithm must be the allowed one, the signature must verify under the  *)
(* key, an exp claim, when present, must lie in the future, an nbf claim   *)
(* must not, and, no audience being passed, the token must carry no aud.   *)
jwt_decode(token, key, alg) ==
    IF token.fmt # "jwt"
    THEN [error |-> "DecodeError", payload |-> None]
    ELSE IF token.alg # alg
    THEN [error |-> "InvalidAlgorithmError", payload |-> None]
    ELSE IF token.key # key
    THEN [error |-> "InvalidSignatureError", payload |-> None]
    ELSE IF token.nbf = "future"
    THEN [error |-> "ImmatureSignatureError", payload |-> None]
    ELSE IF token.exp = "past"
    THEN [error |-> "ExpiredSignatureError", payload |-> None]
    ELSE IF token.aud # None
    THEN [error |-> "InvalidAudienceError", payload |-> None]
    ELSE [error |-> None,
          payload |-> [sub |-> token.sub, email |-> token.email]]

Unauthorized ==
    [kind |-> "http", status |-> HTTP_401,
     detail |-> "Could not validate credentials"]

NotConfigured ==
    [kind |-> "http", status |-> HTTP_503,
     detail |-> "Authentication is not configured (JWT_SECRET missing and Supabase unavailable)."]

(* Variant of local_tier that decodes before it looks at JWT_SECRET, so a  *)
(* missing secret ends as a failed decode.                                 *)
local_tier_decode_first(token) ==
    LET d == jwt_decode(token, JWT_SECRET, JWT_ALGORITHM) IN
    IF d.error # None
    THEN [outcome |-> "invalid", decodes |-> 1, result |-> Unauthorized]
    ELSE IF ~Truthy(JWT_SECRET)
    THEN [outcome |-> "no_secret", decodes |-> 1, result |-> NotConfigured]
    ELSE IF ~Truthy(d.payload.sub)
    THEN [outcome |-> "no_subject", decodes |-> 1, result |-> Unauthorized]
    ELSE [outcome |-> "verified", decodes |-> 1,
          result |-> [kind |-> "identity",
                      user |-> [id |-> d.payload.sub,
                                email |-> d.payload.email]]]

(* Variant of local_tier without the check of the subject claim. *)
local_tier_no_sub_check(token) ==
    IF ~Truthy(JWT_SECRET)
    THEN [outcome |-> "no_secret", decodes |-> 0, result |-> NotConfigured]
    ELSE LET d == jwt_decode(token, JWT_SECRET, JWT_ALGORITHM) IN
         IF d.error # None
         THEN [outcome |-> "invalid", decodes |-> 1, result |-> Unauthorized]
         ELSE [outcome |-> "verified", decodes |-> 1,
               result |-> [kind |-> "identity",
                           user |-> [id |-> d.payload.sub,
                                     email |-> d.payload.email]]]

(* middleware.py:68-90  the local tier of get_current_user. *)
local_tier(token) ==
    IF ~Truthy(JWT_SECRET)
    THEN [outcome |-> "no_secret", decodes |-> 0, result |-> NotConfigured]
    ELSE LET d == jwt_decode(token, JWT_SECRET, JWT_ALGORITHM) IN
         IF d.error # None
         THEN [outcome |-> "invalid", decodes |-> 1, result |-> Unauthorized]
         ELSE IF ~Truthy(d.payload.sub)
         THEN [outcome |-> "no_subject", decodes |-> 1, result |-> Unauthorized]
         ELSE [outcome |-> "verified", decodes |-> 1,
               result |-> [kind |-> "identity",
                           user |-> [id |-> d.payload.sub,
                                     email |-> d.payload.email]]]

(* Variant of after_auth in which the body goes on whatever the result. *)
after_auth_goes_on(result) == "handler"

(* `user = await get_current_user(credentials)` (projects.py:46 and every  *)
(* other handler): the body goes on with an identity, and is left by the   *)
(* exception otherwise.                                                    *)
after_auth(result) ==
    IF result.kind = "identity" THEN "handler" ELSE "auth_failed"

(* The status HTTPBearer raises with when it rejects a request: 403 in the *)
(* FastAPI releases that answer "Not authenticated" with Forbidden, 401 in *)
(* the later ones.  The repository pins neither.                           *)
BearerStatuses == {403, HTTP_401}

(* middleware.py:19  security = HTTPBearer(): the header must be present   *)
(* with a scheme and credentials, and the scheme must be bearer.           *)
bearer_accepts(h) == h.scheme # None /\ h.present /\ h.scheme = "Bearer"

bearer_rejection(h) ==
    [status |-> bearerStatus,
     detail |-> IF h.scheme # None /\ h.present
                THEN "Invalid authentication credentials"
                ELSE "Not authenticated"]

(* Variant of first_tier with the tiers in the other order. *)
first_tier_local == "local"

(* middleware.py:61-64  get_current_user starts with the remote tier. *)
first_tier == "get_client"

----------------------------------------------------------------------------
(* The protected handlers, by router. *)

ProjectEndpoints ==
    {"create_project", "list_projects", "get_project", "update_project",
     "delete_project"}
ClientEndpoints ==
    {"create_client", "list_clients", "get_client", "update_client",
     "delete_client"}
UserEndpoints     == {"get_profile", "update_profile", "delete_profile"}
SettingsEndpoints == {"get_settings", "update_theme", "export_data"}
DashboardEndpoints == {"get_dashboard_stats"}
AuthEndpoints     == {"logout", "get_me"}

Endpoints ==
    ProjectEndpoints \cup ClientEndpoints \cup UserEndpoints
    \cup SettingsEndpoints \cup DashboardEndpoints \cup AuthEndpoints

NoResponse == [status |-> 0, detail |-> None]
NoResult   == [kind |-> "none"]

(* main.py:167-182  http_exception_handler: the exception's status and     *)
(* {"detail": exc.detail}.                                                 *)
http_exception_handler(exc) == [status |-> exc.status, detail |-> exc.detail]

(* What leaves the handler when get_current_user raised `exc`: every       *)
(* handler lets it propagate, except logout (auth.py:203-216), whose       *)
(* `except Exception` wraps it into a 400.                                 *)
auth_failure_raised(e, exc) ==
    IF e = "logout"
    THEN [kind |-> "http", status |-> HTTP_400, detail |-> "Logout failed"]
    ELSE exc

----------------------------------------------------------------------------
(* main.py:32-73  the route groups, in the order main.py imports them and  *)
(* enters them in routers_loaded.                                          *)
RouterNames == <<"auth", "users", "projects", "clients", "dashboard", "settings">>

AllRouters == {RouterNames[i] : i \in DOMAIN RouterNames}

(* The route group an endpoint belongs to (the router its module defines). *)
router_of(e) ==
    IF e \in AuthEndpoints THEN "auth"
    ELSE IF e \in UserEndpoints THEN "users"
    ELSE IF e \in ProjectEndpoints THEN "projects"
    ELSE IF e \in ClientEndpoints THEN "clients"
    ELSE IF e \in DashboardEndpoints THEN "dashboard"
    ELSE "settings"

(* Variant of auth_configured that wants the secret and the provider.      *)
auth_configured_needs_both(secret, url, key) ==
    Truthy(secret) /\ (Truthy(url) /\ Truthy(key))

(* config.py:60  AUTH_CONFIGURED *)
auth_configured(secret, url, key) ==
    Truthy(secret) \/ (Truthy(url) /\ Truthy(key))

(* get_supabase_client has not been called by anyone yet. *)
NoCall ==
    [pc |-> "idle", seen |-> {}, afterFailure |-> FALSE, built |-> "none",
     raised |-> None, value |-> None]

(* config.py:44-57  the settings and the names they are read from: a      *)
(* primary name, then an alias; the token lifetime has one name only.      *)
Aliased ==
    {"SUPABASE_URL", "SUPABASE_KEY", "BACKEND_URL", "FRONTEND_URL", "SITE_URL",
     "ALLOWED_ORIGINS", "JWT_SECRET", "JWT_ALGORITHM"}

alias_of(name) == "REACT_APP_" \o name

EnvNames ==
    Aliased \cup {alias_of(n) : n \in Aliased} \cup {"ACCESS_TOKEN_EXPIRE_MINUTES"}

(* What a variable of the environment can hold: nothing, blanks, a text,   *)
(* a number.                                                               *)
EnvValues == {"", " ", "value", "30"}

NoEnviron == [n \in EnvNames |-> None]

(* The module constants before config.py has bound them. *)
NoSettings ==
    [BACKEND_URL |-> None, FRONTEND_URL |-> None, SITE_URL |-> None,
     ALLOWED_ORIGINS |-> <<>>, ACCESS_TOKEN_EXPIRE_MINUTES |-> 0]

(* The data store: the tables the handlers query, the identities that own *)
(* rows, and the values a row's editable column takes.                     *)
NumWorkers == 2
MaxRows == 2
Tables == {"projects", "clients", "user_settings"}
OwnedTables == {"projects", "clients"}
Identities == {"user-1", "user-9"}
Names == {"a", "b"}
NoRows == [t \in Tables |-> {}]
NoOperation ==
    [op |-> "none", table |-> "projects", identity |-> "user-1",
     returned |-> {}, changed |-> {}]
Workers == 1..NumWorkers
Themes == {"light", "dark"}
NoWorker == [pc |-> "idle", identity |-> "user-1", theme |-> "light"]
NoWorkers == [w \in Workers |-> NoWorker]

(* No reset-password request has been made. *)
NoReset == [email |-> None, provider |-> "none"]

(* No request is in flight: the locals of a request at their defaults. *)
RequestIdle ==
    /\ endpoint = "get_me"
    /\ header = NoHeader
    /\ credentials = GarbageToken
    /\ client = None
    /\ providerResponse = NoAnswer
    /\ supa_user = {}
    /\ remoteOutcome = "none"
    /\ localOutcome = "none"
    /\ decodeCalls = 0
    /\ log = <<>>
    /\ authResult = NoResult
    /\ storeOps = <<>>
    /\ response = NoResponse
    /\ payload = {}
    /\ created = 0
    /\ returnedClients = {}
    /\ failed = FALSE
    /\ calls = 0
    /\ environ = NoEnviron
    /\ settings = NoSettings
    /\ tables = NoRows
    /\ nextId = 1
    /\ handled = NoOperation
    /\ workers = NoWorkers
    /\ now = 0
    /\ issued = {}
    /\ reset = NoReset

(* The process after a start in which the configuration module and every   *)
(* route group loaded, for every configuration the environment can give.   *)
Init ==
    /\ SUPABASE_URL \in UrlValues
    /\ SUPABASE_KEY \in KeyValues
    /\ JWT_SECRET \in SecretValues
    /\ JWT_ALGORITHM \in AlgValues
    /\ bearerStatus \in BearerStatuses
       \* config.py:107-115: the eager attempt at import time
    /\ \E built \in BuildOutcomes :
          LET r == IF Truthy(SUPABASE_URL) /\ Truthy(SUPABASE_KEY)
                   THEN get_supabase_client(None, built)
                   ELSE [raised |-> None, value |-> None, cache |-> None]
          IN /\ supabase_client = r.cache
             /\ supabase = r.value
    /\ AUTH_CONFIGURED = auth_configured(JWT_SECRET, SUPABASE_URL, SUPABASE_KEY)
    /\ config_loaded = TRUE
    /\ routers_loaded = [n \in AllRouters |-> TRUE]
    /\ app = "FastAPI"
    /\ registered = AllRouters
    /\ callers = <<>>
    /\ pc = "idle"
    /\ RequestIdle

(* A request arrives for a protected endpoint. *)
ReceiveRequest ==
    /\ pc = "idle"
    /\ \E e \in Endpoints, h \in Headers :
          /\ router_of(e) \in registered
          /\ endpoint' = e
          /\ header' = h
    /\ pc' = "guard"
    /\ UNCHANGED <<config, supabase_client, supabase, credentials, call,
                   storeOps, response, bearerStatus>>
    /\ UNCHANGED <<boot, payload, accessor, resolver, store, session>>

(* Depends(security): the HTTPBearer dependency runs before the handler. *)
BearerGuard ==
    /\ pc = "guard"
    /\ IF bearer_accepts(header)
       THEN /\ credentials' = header.token
            /\ pc' = first_tier
            /\ UNCHANGED response
       ELSE /\ response' = bearer_rejection(header)
            /\ pc' = "done"
            /\ UNCHANGED credentials
    /\ UNCHANGED <<config, supabase_client, supabase, endpoint, header, call,
                   storeOps, bearerStatus>>
    /\ UNCHANGED <<boot, payload, accessor, resolver, store, session>>

(* Variant of RemoteGetClient that lets the accessor's exception out of    *)
(* get_current_user instead of falling through to the local tier.          *)
RemoteGetClient_raising ==
    /\ pc = "get_client"
    /\ \E built \in BuildOutcomes :
          LET r == get_supabase_client(supabase_client, built) IN
          /\ supabase_client' = r.cache
          /\ IF r.raised = None
             THEN /\ client' = r.value
                  /\ log' = Append(log, "remote_start")
                  /\ pc' = "get_user"
                  /\ UNCHANGED <<supa_user, remoteOutcome, authResult>>
             ELSE /\ supa_user' = {}
                  /\ remoteOutcome' =
                        IF r.raised = "ValueError" THEN "not_configured"
                        ELSE "init_failed"
                  /\ log' = log \o <<"remote_start", "remote_end">>
                  /\ authResult' = [kind |-> "http", status |-> HTTP_503,
                                    detail |-> r.raised]
                  /\ pc' = "auth_failed"
                  /\ UNCHANGED client
    /\ UNCHANGED <<config, supabase, endpoint, header, credentials,
                   providerResponse, localOutcome, decodeCalls, storeOps,
                   response, bearerStatus>>
    /\ UNCHANGED <<boot, payload, accessor, resolver, store, session>>

(* middleware.py:24-27  _supabase_get_user obtains the client. *)
RemoteGetClient ==
    /\ pc = "get_client"
    /\ \E built \in BuildOutcomes :
          LET r == get_supabase_client(supabase_client, built) IN
          /\ supabase_client' = r.cache
          /\ IF r.raised = None
             THEN /\ client' = r.value
                  /\ log' = Append(log, "remote_start")
                  /\ pc' = "get_user"
                  /\ UNCHANGED <<supa_user, remoteOutcome>>
             ELSE /\ supa_user' = {}
                  /\ remoteOutcome' =
                        IF r.raised = "ValueError" THEN "not_configured"
                        ELSE "init_failed"
                  /\ log' = log \o <<"remote_start", "remote_end">>
                  /\ pc' = "local"
                  /\ UNCHANGED client
    /\ UNCHANGED <<config, supabase, endpoint, header, credentials,
                   providerResponse, localOutcome, decodeCalls, authResult, storeOps, response,
                   bearerStatus>>
    /\ UNCHANGED <<boot, payload, accessor, resolver, store, session>>

(* Variant of RemoteGetUser that drops the cached client when the          *)
(* provider call raised, so that the next call builds a new one.           *)
RemoteGetUser_resetting_client ==
    /\ pc = "get_user"
    /\ \E resp \in ProviderResponses :
          LET u == supabase_user_of(resp) IN
          /\ providerResponse' = resp
          /\ supa_user' = u
          /\ remoteOutcome' = resp.kind
          /\ log' = Append(log, "remote_end")
          /\ supabase_client' = IF resp.kind = "raises" THEN None
                                ELSE supabase_client
          /\ IF returns_remote_user(u)
             THEN /\ authResult' =
                        [kind |-> "identity", user |-> CHOOSE x \in u : TRUE]
                  /\ pc' = after_auth(authResult')
             ELSE /\ pc' = "local"
                  /\ UNCHANGED authResult
    /\ UNCHANGED <<config, supabase, endpoint, header,
                   credentials, client, localOutcome, decodeCalls, storeOps,
                   response, bearerStatus>>
    /\ UNCHANGED <<boot, payload, accessor, resolver, store, session>>

(* middleware.py:29-40 and 64-66  the verification call and the return of  *)
(* the remote user.                                                        *)
RemoteGetUser ==
    /\ pc = "get_user"
    /\ \E resp \in ProviderResponses :
          LET u == supabase_user_of(resp) IN
          /\ providerResponse' = resp
          /\ supa_user' = u
          /\ remoteOutcome' = resp.kind
          /\ log' = Append(log, "remote_end")
          /\ IF returns_remote_user(u)
             THEN /\ authResult' =
                        [kind |-> "identity", user |-> CHOOSE x \in u : TRUE]
                  /\ pc' = after_auth(authResult')
             ELSE /\ pc' = "local"
                  /\ UNCHANGED authResult
    /\ UNCHANGED <<config, supabase_client, supabase, endpoint, header,
                   credentials, client, localOutcome, decodeCalls, storeOps,
                   response, bearerStatus>>
    /\ UNCHANGED <<boot, payload, accessor, resolver, store, session>>

(* middleware.py:68-90  the local tier. *)
LocalVerify ==
    /\ pc = "local"
    /\ LET r == local_tier(credentials) IN
          /\ localOutcome' = r.outcome
          /\ decodeCalls' = decodeCalls + r.decodes
          /\ authResult' = r.result
          /\ log' = log \o (IF r.decodes > 0
                            THEN <<"local_start", "jwt_decode", "local_end">>
                            ELSE <<"local_start", "local_end">>)
          /\ pc' = after_auth(r.result)
    /\ UNCHANGED <<config, supabase_client, supabase, endpoint, header,
                   credentials, client, providerResponse, supa_user,
                   remoteOutcome, storeOps, response, bearerStatus>>
    /\ UNCHANGED <<boot, payload, accessor, resolver, store, session>>

(* get_current_user raised: the handler body is left and the exception     *)
(* handler answers.                                                        *)
AuthFailed ==
    /\ pc = "auth_failed"
    /\ response' = http_exception_handler(auth_failure_raised(endpoint, authResult))
    /\ pc' = "done"
    /\ UNCHANGED <<config, supabase_client, supabase, endpoint, header,
                   credentials, call, storeOps, bearerStatus>>
    /\ UNCHANGED <<boot, payload, accessor, resolver, store, session>>

----------------------------------------------------------------------------
(* The handler bodies after get_current_user returned `user`.  `h` is the  *)
(* Supabase handle the body uses, o1 and o2 are what the first and second  *)
(* data-store calls do, `nofields` says that an update carries no field.   *)
(* The result is the response and the operations that were issued.         *)

StoreOutcomes == {"rows", "empty", "raises"}

Answer(st, d, ops) == [status |-> st, detail |-> d, ops |-> ops]

(* One data-store call inside try / except HTTPException: raise / except   *)
(* Exception -> 500.  `onEmpty` is the status raised for an empty result,  *)
(* or the success status when the handler does not look at it.             *)
one_call(h, op, o1, onEmpty, okStatus, what) ==
    IF h = None
    THEN Answer(HTTP_500, "Failed to " \o what, <<>>)
    ELSE IF o1 = "raises"
    THEN Answer(HTTP_500, "Failed to " \o what, <<op>>)
    ELSE IF o1 = "empty" /\ onEmpty # okStatus
    THEN Answer(onEmpty, "Not found or not created", <<op>>)
    ELSE Answer(okStatus, None, <<op>>)

(* projects.py:203-226, clients.py:205-234, users.py:96-125 *)
update_call(h, op, o1, nofields, what) ==
    IF nofields
    THEN Answer(HTTP_400, "No fields to update", <<>>)
    ELSE one_call(h, op, o1, HTTP_404, HTTP_200, what)

(* settings.py:50-83 and 125-163: a first call and, when it finds no row,  *)
(* the insert of the default settings.                                     *)
settings_call(h, op, o1, o2, what) ==
    IF o1 = "raises"
    THEN Answer(HTTP_500, "Failed to " \o what, <<op>>)
    ELSE IF o1 = "rows"
    THEN Answer(HTTP_200, None, <<op>>)
    ELSE IF o2 = "rows"
    THEN Answer(HTTP_200, None, <<op, "insert:user_settings">>)
    ELSE Answer(HTTP_500, "Failed to " \o what, <<op, "insert:user_settings">>)

(* settings.py:202-238 and dashboard.py:54-95: a run of selects, any of    *)
(* which may raise.                                                        *)
select_run(ops, o1, o2, what) ==
    IF o1 = "raises"
    THEN Answer(HTTP_500, "Failed to " \o what, SubSeq(ops, 1, 1))
    ELSE IF o2 = "raises"
    THEN Answer(HTTP_500, "Failed to " \o what, SubSeq(ops, 1, 2))
    ELSE Answer(HTTP_200, None, ops)

(* settings.py:42-48, dashboard.py:46-52 *)
Unavailable == Answer(HTTP_503, "Supabase is not configured/available", <<>>)

(* auth.py:203-216 *)
logout_body(h, o1) ==
    IF h = None
    THEN Answer(HTTP_400, "Logout failed", <<>>)
    ELSE IF o1 = "raises"
    THEN Answer(HTTP_400, "Logout failed", <<"sign_out">>)
    ELSE Answer(HTTP_200, None, <<"sign_out">>)

(* `eager` is config.supabase, bound when the router was imported; `lazy`  *)
(* is what get_supabase_client() gave the body that calls it.              *)
handler_body(e, eager, lazy, o1, o2, nofields) ==
    CASE e = "create_project" ->
            one_call(eager, "insert:projects", o1, HTTP_400, HTTP_201, "create project")
      [] e = "list_projects" ->
            one_call(eager, "select:projects", o1, HTTP_200, HTTP_200, "retrieve projects")
      [] e = "get_project" ->
            one_call(eager, "select:projects", o1, HTTP_404, HTTP_200, "retrieve project")
      [] e = "update_project" ->
            update_call(eager, "update:projects", o1, nofields, "update project")
      [] e = "delete_project" ->
            one_call(eager, "delete:projects", o1, HTTP_404, HTTP_204, "delete project")
      [] e = "create_client" ->
            one_call(eager, "insert:clients", o1, HTTP_400, HTTP_201, "create client")
      [] e = "list_clients" ->
            one_call(eager, "select:clients", o1, HTTP_200, HTTP_200, "retrieve clients")
      [] e = "get_client" ->
            one_call(eager, "select:clients", o1, HTTP_404, HTTP_200, "retrieve client")
      [] e = "update_client" ->
            update_call(eager, "update:clients", o1, nofields, "update client")
      [] e = "delete_client" ->
            one_call(eager, "delete:clients", o1, HTTP_404, HTTP_204, "delete client")
      [] e = "get_profile" ->
            one_call(eager, "select:user_profiles", o1, HTTP_404, HTTP_200, "retrieve profile")
      [] e = "update_profile" ->
            update_call(eager, "update:user_profiles", o1, nofields, "update profile")
      [] e = "delete_profile" ->
            one_call(eager, "delete:user_profiles", o1, HTTP_204, HTTP_204, "delete profile")
      [] e = "get_settings" ->
            IF lazy.raised # None THEN Unavailable
            ELSE settings_call(lazy.value, "select:user_settings", o1, o2, "retrieve settings")
      [] e = "update_theme" ->
            IF lazy.raised # None THEN Unavailable
            ELSE settings_call(lazy.value, "update:user_settings", o1, o2, "update theme preference")
      [] e = "export_data" ->
            IF lazy.raised # None THEN Unavailable
            ELSE select_run(<<"select:user_profiles", "select:projects",
                              "select:clients", "select:user_settings">>,
                            o1, o2, "export data")
      [] e = "get_dashboard_stats" ->
            IF lazy.raised # None THEN Unavailable
            ELSE select_run(<<"select:projects", "select:clients">>,
                            o1, o2, "retrieve dashboard statistics")
      [] e = "logout" -> logout_body(eager, o1)
      [] e = "get_me" -> Answer(HTTP_200, None, <<>>)

(* Only the settings and dashboard bodies call get_supabase_client(). *)
calls_lazy_client(e) == e \in SettingsEndpoints \cup DashboardEndpoints

(* The handlers whose request body is an update (ProjectUpdate,            *)
(* ClientUpdate, UserProfileUpdate), which may set no field.               *)
takes_update(e) == e \in {"update_project", "update_client", "update_profile"}

(* get_current_user returned an identity: the handler body runs. *)
RunHandler ==
    /\ pc = "handler"
    /\ \E built \in (IF calls_lazy_client(endpoint) THEN BuildOutcomes ELSE {"ok"}),
          o1 \in StoreOutcomes,
          o2 \in (IF calls_lazy_client(endpoint) THEN StoreOutcomes ELSE {"rows"}),
          nofields \in (IF takes_update(endpoint) THEN BOOLEAN ELSE {FALSE}) :
          LET lazy == IF calls_lazy_client(endpoint)
                      THEN get_supabase_client(supabase_client, built)
                      ELSE [raised |-> None, value |-> None,
                            cache |-> supabase_client]
              a == handler_body(endpoint, supabase, lazy, o1, o2, nofields)
          IN /\ supabase_client' = lazy.cache
             /\ storeOps' = a.ops
             /\ response' = [status |-> a.status, detail |-> a.detail]
    /\ pc' = "done"
    /\ UNCHANGED <<config, supabase, endpoint, header, credentials, call,
                   bearerStatus>>
    /\ UNCHANGED <<boot, payload, accessor, resolver, store, session>>

----------------------------------------------------------------------------
(* main.py:291-330  readiness_check, an unprotected route of the app       *)
(* itself.  It reads main.py's own names: SUPABASE_URL and SUPABASE_KEY    *)
(* as imported from the configuration module or as the fallback None.      *)

RECURSIVE join(_, _)
join(sep, names) ==
    IF names = <<>> THEN ""
    ELSE IF Len(names) = 1 THEN names[1]
    ELSE names[1] \o sep \o join(sep, Tail(names))

(* main.py:319  the names whose flag is false, in the dict's order *)
failed_routers ==
    SelectSeq(RouterNames,
              LAMBDA n : n \in DOMAIN routers_loaded /\ ~routers_loaded[n])

ConfigIssue  == "Configuration not fully loaded"
UrlIssue     == "SUPABASE_URL not configured"
KeyIssue     == "SUPABASE_KEY not configured"
RoutersIssue == "Some routers failed to load: " \o join(", ", failed_routers)

(* main.py:303-321  the issues list, in the order it is appended to *)
readiness_issues ==
    (IF ~config_loaded THEN <<ConfigIssue>> ELSE <<>>)
    \o (IF ~Truthy(SUPABASE_URL) THEN <<UrlIssue>> ELSE <<>>)
    \o (IF ~Truthy(SUPABASE_KEY) THEN <<KeyIssue>> ELSE <<>>)
    \o (IF failed_routers # <<>> THEN <<RoutersIssue>> ELSE <<>>)

(* Variant of readiness_status that reports ready whatever was found.      *)
readiness_status_always_ready(issues) == "ready"

(* main.py:324  the status text *)
readiness_status(issues) ==
    IF issues = <<>> THEN "ready" ELSE "ready with warnings"

(* main.py:323-330  the returned dict; `issues` is null when empty, given  *)
(* here as the empty set, and {list} otherwise.                            *)
readiness_body ==
    [status         |-> readiness_status(readiness_issues),
     service        |-> "Digital Agency Project Management API",
     version        |-> "1.0.0",
     config_loaded  |-> config_loaded,
     routers_loaded |-> routers_loaded,
     issues         |-> IF readiness_issues = <<>> THEN {}
                        ELSE {readiness_issues}]

(* Variant of readiness_check that refuses with 503 when it found issues.  *)
readiness_check_hard_fail ==
    IF readiness_issues = <<>>
    THEN [status_code |-> HTTP_200, body |-> readiness_body]
    ELSE [status_code |-> HTTP_503, body |-> readiness_body]

(* main.py:284-330  a plain dict is returned on every path: FastAPI sends  *)
(* it with the route's default status.                                     *)
readiness_check ==
    [status_code |-> HTTP_200, body |-> readiness_body]

(* GET /ready *)
ReadinessCheck ==
    /\ pc = "idle"
    /\ app = "FastAPI"
    /\ endpoint' = "readiness_check"
    /\ response' = [status |-> readiness_check.status_code, detail |-> None]
    /\ payload' = {readiness_check.body}
    /\ pc' = "done"
    /\ UNCHANGED <<config, supabase_client, supabase, header, credentials,
                   call, storeOps, bearerStatus, boot, accessor, resolver, store, session>>

(* The response is sent and the request's locals are gone; the next       *)
(* request can be taken.                                                   *)
Respond ==
    /\ pc = "done"
    /\ pc' = "idle"
    /\ endpoint' = "get_me"
    /\ header' = NoHeader
    /\ credentials' = GarbageToken
    /\ client' = None
    /\ providerResponse' = NoAnswer
    /\ supa_user' = {}
    /\ remoteOutcome' = "none"
    /\ localOutcome' = "none"
    /\ decodeCalls' = 0
    /\ log' = <<>>
    /\ authResult' = NoResult
    /\ storeOps' = <<>>
    /\ response' = NoResponse
    /\ payload' = {}
    /\ UNCHANGED <<config, supabase_client, supabase, bearerStatus, boot,
                   accessor, resolver, store, session>>

Next ==
    \/ ReceiveRequest
    \/ BearerGuard
    \/ RemoteGetClient
    \/ RemoteGetUser
    \/ LocalVerify
    \/ AuthFailed
    \/ RunHandler
    \/ ReadinessCheck
    \/ Respond

Spec == Init /\ [][Next]_vars

----------------------------------------------------------------------------
(* The start of the process: main.py's module body, statement by           *)
(* statement, then the unprotected readiness route of the started app.     *)

(* Before main.py's imports ran: nothing is bound yet. *)
InitStartup ==
    /\ SUPABASE_URL = None
    /\ SUPABASE_KEY = None
    /\ JWT_SECRET = None
    /\ JWT_ALGORITHM = None
    /\ supabase_client = None
    /\ supabase = None
    /\ AUTH_CONFIGURED = FALSE
    /\ config_loaded = FALSE
    /\ routers_loaded = [n \in {} |-> TRUE]
    /\ app = None
    /\ registered = {}
    /\ bearerStatus \in BearerStatuses
    /\ callers = <<>>
    /\ pc = "import_config"
    /\ RequestIdle

(* Variant of guarded_import with no except clause around the import.      *)
unguarded_import(raises) ==
    IF raises THEN "abort" ELSE "loaded"

(* main.py:20-29, 33-73  try: import ... except Exception: the exception   *)
(* of a failed import is caught and only recorded.                         *)
guarded_import(raises) ==
    IF raises THEN "caught" ELSE "loaded"

(* main.py:20-29 with config.py:44-115.  The import of the configuration   *)
(* module either runs to its end, binding the settings and making the      *)
(* eager attempt of config.py:107-115, or raises; main.py then binds its   *)
(* fallbacks.                                                              *)
ImportConfig ==
    /\ pc = "import_config"
    /\ \E raises \in BOOLEAN :
          LET r == guarded_import(raises)
          IN IF r = "abort"
             THEN /\ pc' = "aborted"
                  /\ UNCHANGED <<config, supabase_client, supabase,
                                 AUTH_CONFIGURED, config_loaded>>
             ELSE IF r = "loaded"
             THEN /\ SUPABASE_URL' \in UrlValues
                  /\ SUPABASE_KEY' \in KeyValues
                  /\ JWT_SECRET' \in SecretValues
                  /\ JWT_ALGORITHM' \in AlgValues
                  /\ AUTH_CONFIGURED' =
                        auth_configured(JWT_SECRET', SUPABASE_URL', SUPABASE_KEY')
                  /\ \E built \in BuildOutcomes :
                        LET e == IF Truthy(SUPABASE_URL') /\ Truthy(SUPABASE_KEY')
                                 THEN get_supabase_client(None, built)'
                                 ELSE [raised |-> None, value |-> None,
                                       cache |-> None]
                        IN /\ supabase_client' = e.cache
                           /\ supabase' = e.value
                  /\ config_loaded' = TRUE
                  /\ pc' = "import_routers"
             ELSE /\ SUPABASE_URL' = None
                  /\ SUPABASE_KEY' = None
                  /\ config_loaded' = FALSE
                  /\ pc' = "import_routers"
                  /\ UNCHANGED <<JWT_SECRET, JWT_ALGORITHM, supabase_client,
                                 supabase, AUTH_CONFIGURED>>
    /\ UNCHANGED <<routers_loaded, app, registered, endpoint, header,
                   credentials, call, storeOps, response, bearerStatus,
                   payload, accessor, resolver, store, session>>

(* main.py:32-73  the next route group is imported; its flag is entered.   *)
ImportRouter ==
    /\ pc = "import_routers"
    /\ LET n == RouterNames[Cardinality(DOMAIN routers_loaded) + 1]
       IN \E raises \in BOOLEAN :
             LET r == guarded_import(raises)
             IN IF r = "abort"
                THEN /\ pc' = "aborted"
                     /\ UNCHANGED routers_loaded
                ELSE /\ routers_loaded' =
                           [m \in DOMAIN routers_loaded \cup {n} |->
                               IF m = n THEN r = "loaded" ELSE routers_loaded[m]]
                     /\ pc' = IF Cardinality(DOMAIN routers_loaded) + 1
                                   = Len(RouterNames)
                              THEN "create_app" ELSE "import_routers"
    /\ UNCHANGED <<config, supabase_client, supabase, AUTH_CONFIGURED,
                   config_loaded, app, registered, endpoint, header,
                   credentials, call, storeOps, response, bearerStatus,
                   payload, accessor, resolver, store, session>>

(* main.py:108-164  app = FastAPI(...) and its middleware *)
CreateApp ==
    /\ pc = "create_app"
    /\ app' = "FastAPI"
    /\ pc' = "include_routers"
    /\ UNCHANGED <<config, supabase_client, supabase, AUTH_CONFIGURED,
                   config_loaded, routers_loaded, registered, endpoint,
                   header, credentials, call, storeOps, response,
                   bearerStatus, payload, accessor, resolver, store, session>>

(* main.py:228-257  if routers_loaded.get(name): app.include_router(...)   *)
include_routers ==
    {n \in AllRouters : n \in DOMAIN routers_loaded /\ routers_loaded[n]}

(* main.py:228-257, after which the module body is done and the server     *)
(* takes requests.                                                         *)
IncludeRouters ==
    /\ pc = "include_routers"
    /\ registered' = include_routers
    /\ pc' = "idle"
    /\ UNCHANGED <<config, supabase_client, supabase, AUTH_CONFIGURED,
                   config_loaded, routers_loaded, app, endpoint, header,
                   credentials, call, storeOps, response, bearerStatus,
                   payload, accessor, resolver, store, session>>

NextStartup ==
    \/ ImportConfig
    \/ ImportRouter
    \/ CreateApp
    \/ IncludeRouters
    \/ ReadinessCheck
    \/ Respond

SpecStartup == InitStartup /\ [][NextStartup]_vars

----------------------------------------------------------------------------
(* config.py:21-115  the import of the configuration module, from the      *)
(* process environment to the module constants.                            *)

MaxEnv == 2

(* str.strip() on the values of EnvValues *)
strip(v) == IF v = " " THEN "" ELSE v

(* config.py:24-30  _getenv_any: the first name whose value is set and     *)
(* not blank gives the value, as it is; else the default.                  *)
RECURSIVE getenv_any(_, _)
getenv_any(names, default) ==
    IF names = <<>> THEN default
    ELSE LET value == environ[Head(names)]
         IN IF value # None /\ strip(value) # ""
            THEN value
            ELSE getenv_any(Tail(names), default)

(* getenv_any over a setting's primary name and its alias *)
resolve(name, default) == getenv_any(<<name, alias_of(name)>>, default)

(* int(text) on the texts that reach it: a decimal numeral gives its       *)
(* number, any other text raises ValueError.                               *)
int_of(text) ==
    IF text = "30" THEN [raised |-> None, value |-> 30]
    ELSE IF text = "60" THEN [raised |-> None, value |-> 60]
    ELSE [raised |-> "ValueError", value |-> 0]

(* config.py:53  the comma-separated list; no value of EnvValues holds a   *)
(* comma, so the list has the stripped value or nothing.                   *)
origins_of(raw) == IF strip(raw) = "" THEN <<>> ELSE <<strip(raw)>>

(* config.py:57  the token lifetime *)
token_lifetime ==
    LET raw == getenv_any(<<"ACCESS_TOKEN_EXPIRE_MINUTES">>, "60")
    IN int_of(IF raw = "" THEN "60" ELSE raw)

(* Nothing is set in the environment the process is started in. *)
InitConfig ==
    /\ SUPABASE_URL = None
    /\ SUPABASE_KEY = None
    /\ JWT_SECRET = None
    /\ JWT_ALGORITHM = None
    /\ supabase_client = None
    /\ supabase = None
    /\ AUTH_CONFIGURED = FALSE
    /\ config_loaded = FALSE
    /\ routers_loaded = [n \in {} |-> TRUE]
    /\ app = None
    /\ registered = {}
    /\ bearerStatus \in BearerStatuses
    /\ callers = <<>>
    /\ pc = "environment"
    /\ RequestIdle

ConfigFrame ==
    UNCHANGED <<routers_loaded, app, registered, endpoint, header,
                credentials, call, storeOps, response, bearerStatus, payload,
                accessor, store, session>>

(* Whoever starts the process sets one more variable of its environment. *)
SetEnv ==
    /\ pc = "environment"
    /\ Cardinality({n \in EnvNames : environ[n] # None}) < MaxEnv
    /\ \E n \in EnvNames, v \in EnvValues :
          /\ environ[n] = None
          /\ environ' = [environ EXCEPT ![n] = v]
    /\ UNCHANGED <<config, supabase_client, supabase, AUTH_CONFIGURED,
                   config_loaded, settings, pc>>
    /\ ConfigFrame

(* config.py:44-115 run as main.py:20-29 imports the module: the constants *)
(* are bound in order; a ValueError of line 57 ends the import, and        *)
(* main.py binds its fallbacks.                                            *)
LoadConfig ==
    /\ pc = "environment"
    /\ IF token_lifetime.raised # None
       THEN /\ pc' = "config_raised"
            /\ config_loaded' = FALSE
            /\ UNCHANGED <<config, supabase_client, supabase,
                           AUTH_CONFIGURED, settings>>
       ELSE /\ SUPABASE_URL' = resolve("SUPABASE_URL", None)
            /\ SUPABASE_KEY' = resolve("SUPABASE_KEY", None)
            /\ JWT_SECRET' = resolve("JWT_SECRET", None)
            /\ JWT_ALGORITHM' = resolve("JWT_ALGORITHM", "HS256")
            /\ settings' =
                  LET frontend == resolve("FRONTEND_URL", "http://localhost:3000")
                  IN [BACKEND_URL |-> resolve("BACKEND_URL", "http://localhost:3001"),
                      FRONTEND_URL |-> frontend,
                      SITE_URL |-> resolve("SITE_URL", frontend),
                      ALLOWED_ORIGINS |-> origins_of(resolve("ALLOWED_ORIGINS", "")),
                      ACCESS_TOKEN_EXPIRE_MINUTES |-> token_lifetime.value]
            /\ AUTH_CONFIGURED' =
                  auth_configured(JWT_SECRET', SUPABASE_URL', SUPABASE_KEY')
            /\ \E built \in BuildOutcomes :
                  LET e == IF Truthy(SUPABASE_URL') /\ Truthy(SUPABASE_KEY')
                           THEN get_supabase_client(None, built)'
                           ELSE [raised |-> None, value |-> None, cache |-> None]
                  IN /\ supabase_client' = e.cache
                     /\ supabase' = e.value
            /\ config_loaded' = TRUE
            /\ pc' = "config_loaded"
    /\ UNCHANGED environ
    /\ ConfigFrame

NextConfig ==
    \/ SetEnv
    \/ LoadConfig

SpecConfig == InitConfig /\ [][NextConfig]_vars

----------------------------------------------------------------------------
(* middleware.py:30  client.auth.get_user(token) is a blocking call made   *)
(* with the client's defaults: the code passes no timeout and sets no      *)
(* deadline of its own.  While the provider does not answer the request    *)
(* waits inside the call; if the library gives up, its exception is the    *)
(* `except Exception` of middleware.py:37-38.                              *)

(* The provider has not answered yet. *)
RemoteAwait ==
    /\ pc = "get_user"
    /\ pc' = "awaiting"
    /\ UNCHANGED <<config, supabase_client, supabase, endpoint, header,
                   credentials, call, storeOps, response, bearerStatus>>
    /\ UNCHANGED <<boot, payload, accessor, resolver, store, session>>

(* The library's own transport gives up and raises. *)
RemoteTimeout ==
    /\ pc = "awaiting"
    /\ providerResponse' = [kind |-> "raises", user |-> NoUser]
    /\ supa_user' = supabase_user_of(providerResponse')
    /\ remoteOutcome' = "raises"
    /\ log' = Append(log, "remote_end")
    /\ pc' = "local"
    /\ UNCHANGED <<config, supabase_client, supabase, endpoint, header,
                   credentials, client, localOutcome, decodeCalls, authResult,
                   storeOps, response, bearerStatus>>
    /\ UNCHANGED <<boot, payload, accessor, resolver, store, session>>

NextLive ==
    \/ Next
    \/ RemoteAwait
    \/ RemoteTimeout

(* Every statement of the program that can run does run; nothing in the    *)
(* code obliges the wait for the provider to end.                          *)
SpecLive == Init /\ [][NextLive]_vars /\ WF_vars(Next)

----------------------------------------------------------------------------
(* config.py:64-102  get_supabase_client under concurrent callers.  The    *)
(* function takes no lock, so callers on different threads interleave      *)
(* between its statements; each action below is one statement of one       *)
(* caller.                                                                 *)

NumCallers == 2
MaxCalls   == 3

Callers == 1 .. NumCallers

(* The n-th object create_client has returned. *)
Instance(n) == ClientHandle \o "-" \o ToString(n)

(* config.py:64  the module has just bound _supabase_client = None. *)
InitAccessor ==
    /\ SUPABASE_URL \in UrlValues
    /\ SUPABASE_KEY \in KeyValues
    /\ JWT_SECRET \in SecretValues
    /\ JWT_ALGORITHM \in AlgValues
    /\ bearerStatus \in BearerStatuses
    /\ supabase_client = None
    /\ supabase = None
    /\ AUTH_CONFIGURED = auth_configured(JWT_SECRET, SUPABASE_URL, SUPABASE_KEY)
    /\ config_loaded = TRUE
    /\ routers_loaded = [n \in AllRouters |-> TRUE]
    /\ app = "FastAPI"
    /\ registered = AllRouters
    /\ callers = [t \in Callers |-> NoCall]
    /\ pc = "idle"
    /\ RequestIdle

AccessorFrame ==
    UNCHANGED <<config, supabase, pc, endpoint, header, credentials, call,
                storeOps, response, bearerStatus, boot, payload, resolver, store, session>>

(* config.py:68  a caller enters get_supabase_client. *)
AccCall(t) ==
    /\ callers[t].pc = "idle"
    /\ calls < MaxCalls
    /\ calls' = calls + 1
    /\ callers' = [callers EXCEPT ![t] =
                      [NoCall EXCEPT !.pc = "check_cache",
                                     !.seen = returnedClients,
                                     !.afterFailure = failed]]
    /\ UNCHANGED <<supabase_client, created, returnedClients, failed>>
    /\ AccessorFrame

(* config.py:84-85  if _supabase_client is not None: return it *)
AccCheckCache(t) ==
    /\ callers[t].pc = "check_cache"
    /\ IF supabase_client # None
       THEN /\ callers' = [callers EXCEPT ![t].pc = "returned",
                                          ![t].value = supabase_client]
            /\ returnedClients' = returnedClients \cup {supabase_client}
       ELSE /\ callers' = [callers EXCEPT ![t].pc = "check_config"]
            /\ UNCHANGED returnedClients
    /\ UNCHANGED <<supabase_client, created, failed, calls>>
    /\ AccessorFrame

(* config.py:87-88  raise ValueError when the endpoint or the key is unset *)
AccCheckConfig(t) ==
    /\ callers[t].pc = "check_config"
    /\ IF not_configured
       THEN callers' = [callers EXCEPT ![t].pc = "raised",
                                       ![t].raised = "ValueError"]
       ELSE callers' = [callers EXCEPT ![t].pc = "import"]
    /\ UNCHANGED <<supabase_client, created, returnedClients, failed, calls>>
    /\ AccessorFrame

(* config.py:90-94  the lazy import of the supabase package *)
AccImport(t) ==
    /\ callers[t].pc = "import"
    /\ \E ok \in BOOLEAN :
          IF ok
          THEN /\ callers' = [callers EXCEPT ![t].pc = "create"]
               /\ UNCHANGED failed
          ELSE /\ callers' = [callers EXCEPT ![t].pc = "raised",
                                             ![t].built = "import_fails",
                                             ![t].raised = "RuntimeError"]
               /\ failed' = TRUE
    /\ UNCHANGED <<supabase_client, created, returnedClients, calls>>
    /\ AccessorFrame

(* Variant of cache_on_failure that remembers the failure in the cache.    *)
cache_on_failure_poisoned(cache) == "failed"

(* config.py:100-102  the except clause assigns nothing to the cache. *)
cache_on_failure(cache) == cache

(* config.py:96-102  _supabase_client = create_client(url, key), or the    *)
(* RuntimeError of the except clause.                                      *)
AccCreate(t) ==
    /\ callers[t].pc = "create"
    /\ \E ok \in BOOLEAN :
          IF ok
          THEN /\ created' = created + 1
               /\ supabase_client' = Instance(created + 1)
               /\ callers' = [callers EXCEPT ![t].pc = "return",
                                             ![t].built = "ok"]
               /\ UNCHANGED failed
          ELSE /\ supabase_client' = cache_on_failure(supabase_client)
               /\ callers' = [callers EXCEPT ![t].pc = "raised",
                                             ![t].built = "create_fails",
                                             ![t].raised = "RuntimeError"]
               /\ failed' = TRUE
               /\ UNCHANGED created
    /\ UNCHANGED <<returnedClients, calls>>
    /\ AccessorFrame

(* config.py:99  return _supabase_client: the global is read again. *)
AccReturn(t) ==
    /\ callers[t].pc = "return"
    /\ callers' = [callers EXCEPT ![t].pc = "returned",
                                  ![t].value = supabase_client]
    /\ returnedClients' = returnedClients \cup {supabase_client}
    /\ UNCHANGED <<supabase_client, created, failed, calls>>
    /\ AccessorFrame

(* The call is over; the caller may call again. *)
AccDone(t) ==
    /\ callers[t].pc \in {"returned", "raised"}
    /\ callers' = [callers EXCEPT ![t] = NoCall]
    /\ UNCHANGED <<supabase_client, created, returnedClients, failed, calls>>
    /\ AccessorFrame

NextAccessor ==
    \/ \E t \in Callers : AccCall(t)
    \/ \E t \in Callers : AccCheckCache(t)
    \/ \E t \in Callers : AccCheckConfig(t)
    \/ \E t \in Callers : AccImport(t)
    \/ \E t \in Callers : AccCreate(t)
    \/ \E t \in Callers : AccReturn(t)
    \/ \E t \in Callers : AccDone(t)

SpecAccessor == InitAccessor /\ [][NextAccessor]_vars

----------------------------------------------------------------------------
(* Vocabulary of the properties. *)

Range(q) == {q[i] : i \in DOMAIN q}

(* get_current_user has returned or raised in the request in flight. *)
AuthReturned == authResult.kind # "none"

ProviderConfigured == Truthy(SUPABASE_URL) /\ Truthy(SUPABASE_KEY)

(* The remote tier of this call has ended without a user. *)
RemoteFailed ==
    remoteOutcome \in {"not_configured", "init_failed", "raises",
                       "no_response", "no_user", "malformed_user"}

(* The token is a JWS signed with the configured secret under the          *)
(* configured algorithm, and it has not expired.                           *)
SignedAndUnexpired(t) ==
    /\ t.fmt = "jwt"
    /\ t.key = JWT_SECRET
    /\ t.alg = JWT_ALGORITHM
    /\ t.exp # "past"

(* The token also passes the other checks of jwt.decode's defaults: it is  *)
(* not to be used only later, and names no audience.                       *)
PassesDecode(t) ==
    /\ SignedAndUnexpired(t)
    /\ t.nbf # "future"
    /\ t.aud = None

(* What the local tier owes a token, stated from the token alone. *)
LocalVerdict(t) ==
    IF ~Truthy(JWT_SECRET) THEN NotConfigured
    ELSE IF PassesDecode(t) /\ Truthy(t.sub)
    THEN [kind |-> "identity", user |-> [id |-> t.sub, email |-> t.email]]
    ELSE Unauthorized

----------------------------------------------------------------------------
(* C1: when client.auth.get_user answers with a user, get_current_user     *)
(* returns exactly that user's id, email and user_metadata, and jwt.decode *)
(* is not invoked in that call, whatever the token.                        *)
C1_RemoteUserReturned ==
    providerResponse.kind = "user" =>
        /\ authResult = [kind |-> "identity",
                         user |-> [id |-> providerResponse.user.id,
                                   email |-> providerResponse.user.email,
                                   user_metadata |->
                                       providerResponse.user.user_metadata]]
        /\ decodeCalls = 0
        /\ localOutcome = "none"
        /\ "jwt_decode" \notin Range(log)
        /\ "local_start" \notin Range(log)

(* The provider vouches for a token that the local tier would reject. *)
C1_Witness ==
    /\ providerResponse.kind = "user"
    /\ pc = "handler"
    /\ Truthy(JWT_SECRET)
    /\ LocalVerdict(credentials) = Unauthorized
    /\ authResult.kind = "identity"

(* C2, as stated: with the provider not configured and a signing secret   *)
(* configured, get_current_user returns an identity exactly when the token *)
(* is signed with the configured secret and algorithm, unexpired and       *)
(* carries a subject; the identity's id is then the subject, and every     *)
(* other token gets 401.                                                   *)
C2_LocalFallbackIff ==
    (AuthReturned /\ ~ProviderConfigured /\ Truthy(JWT_SECRET)) =>
        IF SignedAndUnexpired(credentials) /\ Truthy(credentials.sub)
        THEN /\ authResult.kind = "identity"
             /\ authResult.user.id = credentials.sub
        ELSE /\ authResult.kind = "http"
             /\ authResult.status = HTTP_401

(* C2, amended: with the provider not configured and a signing secret      *)
(* configured, get_current_user returns an identity exactly when the token *)
(* is signed with the configured secret and algorithm, unexpired, passes   *)
(* jwt.decode's other default checks (no nbf in the future, no aud claim)  *)
(* and carries a non-empty subject; the identity's id is then the subject, *)
(* and every other token gets 401.                                         *)
C2_LocalFallbackIffDecodes ==
    (AuthReturned /\ ~ProviderConfigured /\ Truthy(JWT_SECRET)) =>
        IF PassesDecode(credentials) /\ Truthy(credentials.sub)
        THEN /\ authResult.kind = "identity"
             /\ authResult.user.id = credentials.sub
             /\ localOutcome = "verified"
        ELSE /\ authResult.kind = "http"
             /\ authResult.status = HTTP_401

(* A token signed with the configured secret is accepted without provider. *)
C2_Witness ==
    /\ ~ProviderConfigured
    /\ JWT_SECRET = "s3cr3t"
    /\ remoteOutcome = "not_configured"
    /\ credentials.exp = "absent"
    /\ authResult.kind = "identity"
    /\ authResult.user.id = "user-1"

(* C3: with neither the provider pair nor the signing secret configured,   *)
(* get_current_user fails with 503 for every token.                        *)
C3_NothingConfigured503 ==
    (AuthReturned /\ ~ProviderConfigured /\ ~Truthy(JWT_SECRET)) =>
        /\ authResult.kind = "http"
        /\ authResult.status = HTTP_503

(* A well-formed, signed-looking token meets an unconfigured deployment. *)
C3_Witness ==
    /\ ~ProviderConfigured
    /\ ~Truthy(JWT_SECRET)
    /\ credentials = BaseToken
    /\ pc = "auth_failed"
    /\ authResult.status = HTTP_503

(* C4: an identity is returned only by a call whose remote tier got a user *)
(* from the provider or whose local tier verified the token; a call in     *)
(* which both tiers failed returns none.                                   *)
C4_IdentityOnlyFromATier ==
    (AuthReturned /\ authResult.kind = "identity") =>
        \/ /\ remoteOutcome = "user"
           /\ providerResponse.kind = "user"
           /\ authResult.user.id = providerResponse.user.id
        \/ /\ localOutcome = "verified"
           /\ Truthy(JWT_SECRET)
           /\ PassesDecode(credentials)
           /\ authResult.user.id = credentials.sub

(* Both tiers failed in one call, and it raised. *)
C4_Witness ==
    /\ remoteOutcome = "no_user"
    /\ localOutcome = "invalid"
    /\ credentials.key = "other"
    /\ authResult.kind = "http"

(* C5: a failure of the remote tier (no client, failed construction, an    *)
(* exception, a malformed or userless response) is not what the call       *)
(* raises: the call goes to the local tier and ends as the local tier      *)
(* ends.                                                                   *)
C5_RemoteFailureFallsThrough ==
    RemoteFailed =>
        \/ pc = "local" /\ ~AuthReturned
        \/ /\ AuthReturned
           /\ localOutcome # "none"
           /\ authResult = LocalVerdict(credentials)

(* The client could not be built, and the local tier accepted the token. *)
C5_Witness ==
    /\ remoteOutcome = "init_failed"
    /\ localOutcome = "verified"
    /\ authResult.kind = "identity"

(* C6: in one call the remote attempt has ended before the local tier      *)
(* starts, and the local tier starts only after a remote failure.          *)
C6_RemoteBeforeLocal ==
    /\ \A i \in DOMAIN log :
          log[i] \in {"local_start", "jwt_decode", "local_end"} =>
              \E j \in 1..(i-1) : log[j] = "remote_end"
    /\ log # <<>> => log[1] = "remote_start"
    /\ "local_start" \in Range(log) => RemoteFailed
    /\ pc = "local" => RemoteFailed /\ "remote_end" \in Range(log)

(* A call that went through both tiers. *)
C6_Witness ==
    log = <<"remote_start", "remote_end", "local_start", "jwt_decode",
            "local_end">>

(* C7: in the local tier a token with a valid signature and expiry but an  *)
(* absent or empty subject is rejected with 401.                           *)
C7_NoSubject401 ==
    (/\ AuthReturned
     /\ RemoteFailed
     /\ Truthy(JWT_SECRET)
     /\ SignedAndUnexpired(credentials)
     /\ ~Truthy(credentials.sub)) =>
        /\ authResult = Unauthorized
        /\ localOutcome \in {"no_subject", "invalid"}
        /\ PassesDecode(credentials) => localOutcome = "no_subject"

(* A validly signed token with an empty subject was refused. *)
C7_Witness ==
    /\ localOutcome = "no_subject"
    /\ credentials.sub = ""
    /\ SignedAndUnexpired(credentials)
    /\ authResult.status = HTTP_401

C9_NoHandlerAfterAuthFailure ==
    (authResult.kind = "http" \/ (pc = "done" /\ ~bearer_accepts(header))) =>
        /\ storeOps = <<>>
        /\ pc # "handler"

(* A logout with a bad token is answered without a sign_out. *)
C9_Witness ==
    /\ pc = "done"
    /\ endpoint = "logout"
    /\ supabase # None
    /\ authResult.kind = "http"
    /\ storeOps = <<>>

(* C10: an authentication failure reaches the client with the status       *)
(* get_current_user raised, 401 or 503, in a {detail} body, on every       *)
(* protected endpoint.                                                     *)
C10_AuthFailureStatusKept ==
    (pc = "done" /\ authResult.kind = "http") =>
        /\ response.status = authResult.status
        /\ response.status \in {HTTP_401, HTTP_503}
        /\ response.detail = authResult.detail

----------------------------------------------------------------------------
(* Readiness: what a finished GET /ready left behind.                      *)

ReadinessAnswered == pc = "done" /\ endpoint = "readiness_check"

(* The issues list of the body, the empty list when the body gives null.   *)
IssuesOf(body) == IF body.issues = {} THEN <<>> ELSE CHOOSE l \in body.issues : TRUE

Reported(text) ==
    \E body \in payload : text \in Range(IssuesOf(body))

SomeRouterFailed == \E n \in DOMAIN routers_loaded : ~routers_loaded[n]

(* C11: the readiness endpoint answers HTTP 200 with its body in every     *)
(* configuration state the start of the process can leave: provider and    *)
(* secret in any combination, configuration module loaded or not, any      *)
(* subset of the route groups failed; once the app serves it is never      *)
(* refused and never answers 500 or 503.                                   *)
C11_ReadinessAlways200 ==
    /\ (pc = "idle" => ENABLED ReadinessCheck)
    /\ (ReadinessAnswered => response.status = HTTP_200 /\ payload # {})

C11_Witness ==
    /\ ReadinessAnswered
    /\ ~config_loaded
    /\ SomeRouterFailed
    /\ response.status = HTTP_200

(* C12: the issues list of the readiness body holds an entry for each of   *)
(* these conditions exactly when it holds: configuration module not        *)
(* loaded, provider endpoint missing, provider key missing,                *)
(* auth_configured false, and some route group failed (the entry naming    *)
(* each failed group).                                                     *)
C12_IssuesIffConditions ==
    ReadinessAnswered =>
        \A body \in payload :
            LET issues == Range(IssuesOf(body))
                known  == {ConfigIssue, UrlIssue, KeyIssue, RoutersIssue}
            IN /\ (ConfigIssue \in issues) <=> ~config_loaded
               /\ (UrlIssue \in issues) <=> ~Truthy(SUPABASE_URL)
               /\ (KeyIssue \in issues) <=> ~Truthy(SUPABASE_KEY)
               /\ (RoutersIssue \in issues) <=> SomeRouterFailed
               /\ (\E i \in issues : i \notin known) <=> ~AUTH_CONFIGURED

(* C13 as stated: the status is `ready` exactly when no issue was found    *)
(* and `ready_with_warnings` exactly when at least one was, and nothing    *)
(* else.                                                                   *)
C13_StatusReadyOrReadyWithWarnings ==
    ReadinessAnswered =>
        \A body \in payload :
            /\ body.status \in {"ready", "ready_with_warnings"}
            /\ (body.status = "ready") <=> (body.issues = {})
            /\ (body.status = "ready_with_warnings") <=> (body.issues # {})

(* C13, amended: the status is `ready` exactly when the issues field is    *)
(* null and the text `ready with warnings` exactly when it holds at least  *)
(* one issue; it never takes another value, and the issues field is never  *)
(* an empty list.                                                          *)
C13_StatusReadyIffNoIssue ==
    ReadinessAnswered =>
        \A body \in payload :
            /\ body.status \in {"ready", "ready with warnings"}
            /\ (body.status = "ready") <=> (body.issues = {})
            /\ (body.status = "ready with warnings") <=> (body.issues # {})
            /\ <<>> \notin body.issues
            /\ (body.issues = {}) <=>
                  (config_loaded /\ Truthy(SUPABASE_URL) /\ Truthy(SUPABASE_KEY)
                   /\ ~SomeRouterFailed)

C13_Witness ==
    /\ ReadinessAnswered
    /\ \E body \in payload : body.status = "ready with warnings"
    /\ config_loaded
    /\ ~SomeRouterFailed

----------------------------------------------------------------------------
(* The client accessor: what the calls of get_supabase_client left behind. *)

Finished(t) == callers[t].pc \in {"returned", "raised"}

ConstructionFailed(t) == callers[t].built \in {"import_fails", "create_fails"}

Instances == {Instance(n) : n \in 1 .. created}

(* C14: while the provider endpoint or key is unset (and so no client is   *)
(* cached), every call of get_supabase_client fails with ValueError        *)
(* without reaching the import of the package or create_client, and the    *)
(* cache stays unset.                                                      *)
C14_UnsetConfigValueError ==
    ~ProviderConfigured =>
        /\ created = 0
        /\ supabase_client = None
        /\ returnedClients = {}
        /\ \A t \in DOMAIN callers :
              /\ callers[t].pc \notin {"import", "create", "return", "returned"}
              /\ callers[t].built = "none"
              /\ callers[t].pc = "raised" =>
                    callers[t].raised = "ValueError" /\ callers[t].value = None

C14_Witness ==
    /\ Truthy(SUPABASE_URL)
    /\ ~Truthy(SUPABASE_KEY)
    /\ \E t \in DOMAIN callers :
          callers[t].pc = "raised" /\ callers[t].raised = "ValueError"
    /\ calls > 1

(* C15: whatever the interleaving of concurrent first-time callers,        *)
(* create_client succeeds at most once in the process.                     *)
C15_AtMostOneConstruction == created <= 1

(* C16: once the cache holds a client it is never given another value: it  *)
(* goes from unset to set at most once.                                    *)
C16_CacheSetOnce ==
    [][supabase_client # None => supabase_client' = supabase_client]_vars

(* C17: a call that starts after some call has returned client c returns   *)
(* that same c and constructs nothing.                                     *)
C17_LaterCallsReturnSameClient ==
    \A t \in DOMAIN callers :
        (Finished(t) /\ callers[t].seen # {}) =>
            /\ callers[t].raised = None
            /\ callers[t].built = "none"
            /\ \A c \in callers[t].seen : callers[t].value = c

(* C18: a call whose construction fails ends with RuntimeError and no      *)
(* value, and writes nothing to the cache (no client built yet means the   *)
(* cache is still unset); a call that starts after such a failure with     *)
(* the cache unset tries the construction again, and when its              *)
(* construction succeeds it returns a client and the cache holds one.      *)
C18_FailureDoesNotPoison ==
    /\ created = 0 => supabase_client = None
    /\ \A t \in DOMAIN callers :
          /\ ConstructionFailed(t) =>
                /\ callers[t].pc = "raised"
                /\ callers[t].raised = "RuntimeError"
                /\ callers[t].value = None
          /\ (callers[t].afterFailure /\ callers[t].pc = "raised"
                 /\ ProviderConfigured) => ConstructionFailed(t)
          /\ (callers[t].afterFailure /\ callers[t].pc = "returned") =>
                /\ callers[t].raised = None
                /\ callers[t].value \in Instances
                /\ supabase_client \in Instances

C18_Witness ==
    /\ created = 1
    /\ \E t \in DOMAIN callers :
          /\ callers[t].afterFailure
          /\ callers[t].built = "ok"
          /\ callers[t].pc = "returned"
          /\ callers[t].value = supabase_client

----------------------------------------------------------------------------
(* Configuration and the start of the process.                             *)

(* C19: AUTH_CONFIGURED is true exactly when the signing secret is set or  *)
(* both the provider endpoint and the provider key are set, and no step    *)
(* of the running process (the accessor, get_current_user, a handler,      *)
(* the readiness route) changes it or any other configuration value.       *)
C19_AuthConfiguredFixed ==
    /\ [](AUTH_CONFIGURED <=>
             (JWT_SECRET # None /\ JWT_SECRET # "")
             \/ (SUPABASE_URL # None /\ SUPABASE_URL # ""
                 /\ SUPABASE_KEY # None /\ SUPABASE_KEY # ""))
    /\ [][UNCHANGED <<SUPABASE_URL, SUPABASE_KEY, JWT_SECRET, JWT_ALGORITHM,
                      AUTH_CONFIGURED>>]_vars

C19_Witness ==
    /\ pc = "done"
    /\ endpoint \in SettingsEndpoints
    /\ response.status = HTTP_200
    /\ AUTH_CONFIGURED
    /\ JWT_SECRET = None
    /\ supabase = None
    /\ supabase_client # None

BootSteps == {"import_config", "import_routers", "create_app", "include_routers"}

(* C20: the start of the process never aborts.  Whatever configuration is  *)
(* missing, whether the eager client construction or the configuration     *)
(* import failed, and whichever route groups failed to import, the module  *)
(* body runs on to the end, the application object exists, a route group   *)
(* is included exactly when its flag is true, and readiness reports every  *)
(* failed group, in its flags and in the issue that names them.            *)
C20_StartupNeverAborts ==
    /\ pc # "aborted"
    /\ pc \in BootSteps => ENABLED NextStartup
    /\ pc \notin BootSteps =>
          /\ app = "FastAPI"
          /\ DOMAIN routers_loaded = AllRouters
          /\ \A n \in AllRouters : n \in registered <=> routers_loaded[n]
    /\ ReadinessAnswered =>
          \A body \in payload :
             /\ \A n \in AllRouters : body.routers_loaded[n] = (n \in registered)
             /\ SomeRouterFailed =>
                   \E i \in DOMAIN IssuesOf(body) :
                      IssuesOf(body)[i] =
                         "Some routers failed to load: " \o join(", ", failed_routers)

C20_Witness ==
    /\ ReadinessAnswered
    /\ config_loaded
    /\ ProviderConfigured
    /\ supabase = None
    /\ JWT_SECRET = None
    /\ registered = {"auth", "settings"}
    /\ Reported("Some routers failed to load: users, projects, clients, dashboard")

----------------------------------------------------------------------------
(* Degraded mode: the handlers without a provider client.                  *)

(* The handlers that read or write tables of the data store. *)
DataEndpoints ==
    ProjectEndpoints \cup ClientEndpoints \cup UserEndpoints
    \cup SettingsEndpoints \cup DashboardEndpoints

(* The request in flight was authenticated by the local tier because no    *)
(* provider client could be had, and none has been built since.            *)
DegradedLocal ==
    /\ pc = "done"
    /\ remoteOutcome \in {"not_configured", "init_failed"}
    /\ localOutcome = "verified"
    /\ supabase_client = None

(* C21: in degraded mode (provider client not configured or not            *)
(* constructible, request authenticated by the local tier) every handler   *)
(* of the projects, clients, users, settings and dashboard groups that     *)
(* gets as far as the data store answers 503, never 500.                   *)
C21_DegradedMode503 ==
    (DegradedLocal /\ endpoint \in DataEndpoints
       /\ response.detail # "No fields to update")
        => response.status = HTTP_503

----------------------------------------------------------------------------
(* C22: a call of get_current_user whose remote verification gets no       *)
(* answer from the provider still completes: the wait ends, counts as a    *)
(* remote failure, and the call returns or raises as the local tier does.  *)
C22_UnresponsiveProviderCompletes ==
    (pc = "awaiting") ~> AuthReturned

----------------------------------------------------------------------------
(* Configuration resolution: what the import of config.py made of the      *)
(* environment.                                                            *)

ConfigImported == pc \in {"config_loaded", "config_raised"}

(* The variable is set to something other than blanks. *)
NonBlank(n) == environ[n] # None /\ strip(environ[n]) # ""

(* What a setting with a primary name and an alias is to resolve to. *)
Claimed(name, default) ==
    IF NonBlank(name) THEN environ[name]
    ELSE IF NonBlank(alias_of(name)) THEN environ[alias_of(name)]
    ELSE default

(* C23: resolving the configuration never raises, whatever the environment *)
(* holds: no value of a setting, the token lifetime included, makes the    *)
(* import fail, and an absent or empty optional value leaves the setting   *)
(* unset or at its default.                                                *)
C23_ConfigNeverRaises ==
    /\ pc # "config_raised"
    /\ pc = "config_loaded" =>
          \A n \in {"SUPABASE_URL", "SUPABASE_KEY", "JWT_SECRET"} :
             (environ[n] \in {None, ""} /\ environ[alias_of(n)] \in {None, ""})
                => (CASE n = "SUPABASE_URL" -> SUPABASE_URL
                      [] n = "SUPABASE_KEY" -> SUPABASE_KEY
                      [] n = "JWT_SECRET" -> JWT_SECRET) = None

(* C24: every setting resolves to the value of its primary name when that  *)
(* is not empty, else to its alias's value when that is not empty, else to *)
(* its default (backend URL http://localhost:3001, frontend URL            *)
(* http://localhost:3000, site URL the resolved frontend URL, algorithm    *)
(* HS256, lifetime 60) or to unset when it has none.                       *)
C24_PrimaryAliasDefault ==
    ConfigImported =>
        /\ pc = "config_loaded"
        /\ SUPABASE_URL = Claimed("SUPABASE_URL", None)
        /\ SUPABASE_KEY = Claimed("SUPABASE_KEY", None)
        /\ JWT_SECRET = Claimed("JWT_SECRET", None)
        /\ JWT_ALGORITHM = Claimed("JWT_ALGORITHM", "HS256")
        /\ settings.BACKEND_URL = Claimed("BACKEND_URL", "http://localhost:3001")
        /\ settings.FRONTEND_URL = Claimed("FRONTEND_URL", "http://localhost:3000")
        /\ settings.SITE_URL = Claimed("SITE_URL", settings.FRONTEND_URL)
        /\ settings.ACCESS_TOKEN_EXPIRE_MINUTES =
              IF NonBlank("ACCESS_TOKEN_EXPIRE_MINUTES")
              THEN int_of(environ["ACCESS_TOKEN_EXPIRE_MINUTES"]).value
              ELSE 60

----------------------------------------------------------------------------
(* C25: get_current_user keeps no state of its own.  While a call runs,    *)
(* the only shared value that may change is the provider-client cache,     *)
(* and only from unset to set; and what the call returns or raises is      *)
(* determined by its token, the configuration and what the provider        *)
(* answered in this call: the provider's user if it gave one, else the     *)
(* local verdict on the token, whatever earlier requests did.              *)
C25_StatelessApartFromCache ==
    /\ [](AuthReturned =>
            authResult = IF providerResponse.kind = "user"
                         THEN [kind |-> "identity", user |-> providerResponse.user]
                         ELSE LocalVerdict(credentials))
    /\ [][(pc \in {"get_client", "get_user", "local"}) =>
            ((UNCHANGED <<config, supabase, boot, storeOps, bearerStatus>>) /\
             (supabase_client' # supabase_client => supabase_client = None))
         ]_vars

(* The cache was filled lazily, the provider call raised, and the call     *)
(* ended as the local tier ends.                                           *)
C25_Witness ==
    /\ AuthReturned
    /\ supabase = None
    /\ supabase_client # None
    /\ providerResponse.kind = "raises"
    /\ localOutcome = "verified"

----------------------------------------------------------------------------
(* C27: every identity get_current_user returns, from the remote or the    *)
(* local tier, has a non-empty id.                                         *)
C27_IdentityHasId ==
    authResult.kind = "identity" => Truthy(authResult.user.id)

----------------------------------------------------------------------------
(* The data handlers against the data store.  A row is its id, its owner  *)
(* column user_id and one editable column.  Each action of the project and *)
(* client groups is one request of an authenticated identity u: the value  *)
(* of user["id"] after get_current_user returned.                          *)

RowIds == 1 .. MaxRows

(* .eq("id", project_id) *)
eq_id(rows, id) == {r \in rows : r.id = id}

eq_user_id_unscoped(rows, uid) == rows

(* .eq("user_id", user["id"]) *)
eq_user_id(rows, uid) == {r \in rows : r.user_id = uid}

(* The process serves requests with the data handle bound.  The data      *)
(* handlers read none of the token settings: one value of each is taken.   *)
InitStore ==
    /\ Init
    /\ supabase # None
    /\ JWT_SECRET # None
    /\ JWT_ALGORITHM = "HS256"
    /\ bearerStatus = HTTP_401

StoreFrame ==
    UNCHANGED <<config, supabase_client, supabase, pc, endpoint, header,
                credentials, call, storeOps, response, bearerStatus, boot,
                payload, accessor, resolver, session>>

(* projects.py:46-56, clients.py:46-56  the body is dumped, user_id is    *)
(* set to the caller's id, and the row is inserted.                        *)
create_row ==
    \E t \in OwnedTables, u \in Identities, n \in Names :
        LET row == [id |-> nextId, user_id |-> u, name |-> n]
        IN /\ nextId <= MaxRows
           /\ tables' = [tables EXCEPT ![t] = @ \cup {row}]
           /\ nextId' = nextId + 1
           /\ handled' = [op |-> "create", table |-> t, identity |-> u,
                          returned |-> {row}, changed |-> {row}]
           /\ UNCHANGED workers
           /\ StoreFrame

(* projects.py:104, clients.py:104 *)
list_rows ==
    \E t \in OwnedTables, u \in Identities :
        /\ handled' = [op |-> "list", table |-> t, identity |-> u,
                       returned |-> eq_user_id(tables[t], u), changed |-> {}]
        /\ UNCHANGED <<tables, nextId, workers>>
        /\ StoreFrame

(* projects.py:150, clients.py:150 *)
get_row ==
    \E t \in OwnedTables, u \in Identities, id \in RowIds :
        /\ handled' = [op |-> "get", table |-> t, identity |-> u,
                       returned |-> eq_user_id(eq_id(tables[t], id), u),
                       changed |-> {}]
        /\ UNCHANGED <<tables, nextId, workers>>
        /\ StoreFrame

(* projects.py:203-226, clients.py:203-226  the update carries the fields  *)
(* of the body, which has no user_id field.                                *)
update_row ==
    \E t \in OwnedTables, u \in Identities, id \in RowIds, n \in Names :
        LET target  == eq_user_id(eq_id(tables[t], id), u)
            updated == {[r EXCEPT !.name = n] : r \in target}
        IN /\ tables' = [tables EXCEPT ![t] = (@ \ target) \cup updated]
           /\ handled' = [op |-> "update", table |-> t, identity |-> u,
                          returned |-> updated, changed |-> target]
           /\ UNCHANGED <<nextId, workers>>
           /\ StoreFrame

(* projects.py:265-276, clients.py:265-276 *)
delete_row ==
    \E t \in OwnedTables, u \in Identities, id \in RowIds :
        LET target == eq_user_id(eq_id(tables[t], id), u)
        IN /\ tables' = [tables EXCEPT ![t] = @ \ target]
           /\ handled' = [op |-> "delete", table |-> t, identity |-> u,
                          returned |-> {}, changed |-> target]
           /\ UNCHANGED <<nextId, workers>>
           /\ StoreFrame

(* The settings handlers.  The table is shared by every worker that serves *)
(* the application, and a handler's two data-store calls are two requests  *)
(* to the store: another worker's calls can fall between them.             *)

(* settings.py:52-56  the select of get_settings; a row found is returned. *)
get_settings_select(w) ==
    \E u \in Identities :
        LET rows == eq_user_id(tables["user_settings"], u)
        IN /\ workers[w].pc = "idle"
           /\ IF rows # {}
              THEN /\ handled' = [op |-> "get_settings", table |-> "user_settings",
                                  identity |-> u, returned |-> rows, changed |-> {}]
                   /\ UNCHANGED workers
              ELSE /\ workers' = [workers EXCEPT ![w] =
                                    [pc |-> "insert", identity |-> u, theme |-> "light"]]
                   /\ UNCHANGED handled
           /\ UNCHANGED <<tables, nextId>>
           /\ StoreFrame

(* settings.py:125-133, 150-151  the update of update_theme; rows updated  *)
(* are returned.                                                           *)
update_theme_update(w) ==
    \E u \in Identities, theme \in Themes :
        LET target  == eq_user_id(tables["user_settings"], u)
            updated == {[r EXCEPT !.name = theme] : r \in target}
        IN /\ workers[w].pc = "idle"
           /\ IF target # {}
              THEN /\ tables' = [tables EXCEPT !["user_settings"] = (@ \ target) \cup updated]
                   /\ handled' = [op |-> "update_theme", table |-> "user_settings",
                                  identity |-> u, returned |-> updated, changed |-> target]
                   /\ UNCHANGED workers
              ELSE /\ workers' = [workers EXCEPT ![w] =
                                    [pc |-> "insert", identity |-> u, theme |-> theme]]
                   /\ UNCHANGED <<tables, handled>>
           /\ UNCHANGED nextId
           /\ StoreFrame

(* settings.py:59-75, 135-149  the insert after a select or update that    *)
(* found no row.  The store accepts the row or the call fails (500).       *)
settings_insert(w) ==
    LET me  == workers[w]
        row == [id |-> nextId, user_id |-> me.identity, name |-> me.theme]
    IN /\ me.pc = "insert"
       /\ \/ /\ nextId <= MaxRows
             /\ tables' = [tables EXCEPT !["user_settings"] = @ \cup {row}]
             /\ nextId' = nextId + 1
             /\ handled' = [op |-> "insert_settings", table |-> "user_settings",
                            identity |-> me.identity, returned |-> {row},
                            changed |-> {row}]
          \/ /\ handled' = [op |-> "insert_failed", table |-> "user_settings",
                            identity |-> me.identity, returned |-> {}, changed |-> {}]
             /\ UNCHANGED <<tables, nextId>>
       /\ workers' = [workers EXCEPT ![w] = NoWorker]
       /\ StoreFrame

GetSettingsSelect == \E w \in Workers : get_settings_select(w)
UpdateThemeUpdate == \E w \in Workers : update_theme_update(w)
SettingsInsert == \E w \in Workers : settings_insert(w)

NextStore ==
    \/ create_row
    \/ list_rows
    \/ get_row
    \/ update_row
    \/ delete_row

SpecStore == InitStore /\ [][NextStore]_vars

NextSettings ==
    \/ GetSettingsSelect
    \/ UpdateThemeUpdate
    \/ SettingsInsert

SpecSettings == InitStore /\ [][NextSettings]_vars

(* C26  Ownership scoping: whatever a project or client operation of an    *)
(* authenticated identity returns, modifies or removes has user_id equal   *)
(* to that identity's id, a created row gets the creator's id, and the     *)
(* rows of every other owner are left as they were.                        *)
C26_OwnershipScoping ==
    /\ [](handled.table \in OwnedTables =>
            \A r \in handled.returned \cup handled.changed :
                r.user_id = handled.identity)
    /\ [][\A t \in OwnedTables :
             {r \in tables'[t] : r.user_id # handled'.identity}
                 = {r \in tables[t] : r.user_id # handled'.identity}]_vars

(* An identity updated a row of its own in a table that also holds a row *)
(* of another owner.                                                       *)
C26_Witness ==
    /\ handled.op = "update"
    /\ handled.changed # {}
    /\ \E r \in tables[handled.table] : r.user_id # handled.identity

(* C28  After any interleaving of get_settings and update_theme requests   *)
(* of one user, user_settings holds at most one row of that user.          *)
C28_OneSettingsRow ==
    \A u \in Identities :
        Cardinality(eq_user_id(tables["user_settings"], u)) <= 1

----------------------------------------------------------------------------
(* Tokens of the application's own making, and the clock.                  *)

(* The dicts create_access_token is given: the sub and email of auth.py:96 *)
(* and the registered claims aud and nbf that jwt.decode validates.        *)
TokenData ==
    [sub : {"user-1", ""}, email : {None, "a@x.io"},
     aud : {None, "authenticated"}, nbf : {"absent", "future"}]

(* config.py:57  the lifetimes int() yields for the values of the          *)
(* environment: the default "60", and "30".                                *)
Lifetimes == {int_of("60").value, int_of("30").value}

(* Minutes at which the clock is read: around the expiry of a token of     *)
(* either lifetime that was made at 0.                                     *)
ClockValues == {0, 29, 30, 59, 60, 61}

create_access_token_other_key(data, t) ==
    [raised |-> None,
     value |-> [fmt |-> "jwt", key |-> "other", alg |-> JWT_ALGORITHM,
                exp |-> t + settings.ACCESS_TOKEN_EXPIRE_MINUTES,
                nbf |-> data.nbf, aud |-> data.aud,
                sub |-> data.sub, email |-> data.email]]

(* auth.py:20-34  create_access_token at time t: the data, with exp set to *)
(* t plus the lifetime, signed with JWT_SECRET under JWT_ALGORITHM.        *)
(* jwt.encode raises when the key is None.                                 *)
create_access_token(data, t) ==
    IF JWT_SECRET = None
    THEN [raised |-> "TypeError", value |-> GarbageToken]
    ELSE [raised |-> None,
          value |-> [fmt |-> "jwt", key |-> JWT_SECRET, alg |-> JWT_ALGORITHM,
                     exp |-> t + settings.ACCESS_TOKEN_EXPIRE_MINUTES,
                     nbf |-> data.nbf, aud |-> data.aud,
                     sub |-> data.sub, email |-> data.email]]

(* middleware.py:76  what jwt.decode at time t sees of the exp claim: the  *)
(* token has expired when exp <= t.                                        *)
seen_at(token, t) ==
    [token EXCEPT !.exp = IF t < token.exp THEN "future" ELSE "past"]

(* The loaded process with a token lifetime, before any token was made. *)
InitToken ==
    /\ SUPABASE_URL \in UrlValues
    /\ SUPABASE_KEY \in KeyValues
    /\ JWT_SECRET \in SecretValues
    /\ JWT_ALGORITHM \in AlgValues
    /\ bearerStatus = HTTP_401
    /\ \E built \in BuildOutcomes :
          LET r == IF Truthy(SUPABASE_URL) /\ Truthy(SUPABASE_KEY)
                   THEN get_supabase_client(None, built)
                   ELSE [raised |-> None, value |-> None, cache |-> None]
          IN /\ supabase_client = r.cache
             /\ supabase = r.value
    /\ AUTH_CONFIGURED = auth_configured(JWT_SECRET, SUPABASE_URL, SUPABASE_KEY)
    /\ config_loaded = TRUE
    /\ routers_loaded = [n \in AllRouters |-> TRUE]
    /\ app = "FastAPI"
    /\ registered = AllRouters
    /\ callers = <<>>
    /\ pc = "idle"
    /\ endpoint = "get_me"
    /\ header = NoHeader
    /\ credentials = GarbageToken
    /\ client = None
    /\ providerResponse = NoAnswer
    /\ supa_user = {}
    /\ remoteOutcome = "none"
    /\ localOutcome = "none"
    /\ decodeCalls = 0
    /\ log = <<>>
    /\ authResult = NoResult
    /\ storeOps = <<>>
    /\ response = NoResponse
    /\ payload = {}
    /\ created = 0
    /\ returnedClients = {}
    /\ failed = FALSE
    /\ calls = 0
    /\ environ = NoEnviron
    /\ \E m \in Lifetimes :
          settings = [NoSettings EXCEPT !.ACCESS_TOKEN_EXPIRE_MINUTES = m]
    /\ tables = NoRows
    /\ nextId = 1
    /\ handled = NoOperation
    /\ workers = NoWorkers
    /\ now = 0
    /\ issued = {}
    /\ reset = NoReset

TokenFrame ==
    UNCHANGED <<config, supabase_client, supabase, credentials, call, storeOps,
                response, bearerStatus, boot, payload, accessor, resolver, store,
                reset>>

(* auth.py:95-97  a token is made for some data; the call and its time are *)
(* kept with the token.                                                    *)
CreateAccessToken ==
    /\ pc = "idle"
    /\ issued = {}
    /\ \E data \in TokenData :
          LET r == create_access_token(data, now)
          IN issued' = IF r.raised = None
                       THEN {[token |-> r.value, data |-> data, at |-> now]}
                       ELSE {}
    /\ UNCHANGED <<pc, endpoint, header, now>>
    /\ TokenFrame

(* Time passes between requests. *)
Tick ==
    /\ pc = "idle"
    /\ \E t \in ClockValues :
          /\ t > now
          /\ now' = t
    /\ UNCHANGED <<pc, endpoint, header, issued>>
    /\ TokenFrame

(* The holder of the token presents it to a protected endpoint. *)
PresentIssued ==
    /\ pc = "idle"
    /\ \E i \in issued :
          header' = [scheme |-> "Bearer", present |-> TRUE,
                     token |-> seen_at(i.token, now)]
    /\ endpoint' = "get_me"
    /\ pc' = "guard"
    /\ UNCHANGED <<now, issued>>
    /\ TokenFrame

NextToken ==
    \/ CreateAccessToken
    \/ Tick
    \/ PresentIssued
    \/ BearerGuard
    \/ RemoteGetClient
    \/ RemoteGetUser
    \/ LocalVerify
    \/ AuthFailed
    \/ RunHandler
    \/ Respond

SpecToken == InitToken /\ [][NextToken]_vars

(* The token of issue i is presented in the call that has returned, the    *)
(* provider gave no user, a secret is configured, the data had a non-empty *)
(* sub, and the lifetime has not run out.                                  *)
RoundTrip(i) ==
    /\ AuthReturned
    /\ RemoteFailed
    /\ Truthy(JWT_SECRET)
    /\ Truthy(i.data.sub)
    /\ now < i.at + settings.ACCESS_TOKEN_EXPIRE_MINUTES

Accepted(i) ==
    authResult = [kind |-> "identity",
                  user |-> [id |-> i.data.sub, email |-> i.data.email]]

----------------------------------------------------------------------------
(* POST /auth/reset-password, which takes no credentials.                  *)

(* Addresses that pass the EmailStr validation of the body: one with an    *)
(* account at the provider and one without.                                *)
Emails == {"a@x.io", "nobody@x.io"}

(* What supabase.auth.reset_password_email does when it is reached. *)
ResetOutcomes == {"sent", "raises"}

ResetMessage == "If the email exists, a password reset link has been sent"

reset_password_revealing(h, email, o) ==
    IF h = None \/ o = "raises"
    THEN Answer(HTTP_400, "Failed to send reset email", <<>>)
    ELSE Answer(HTTP_200, ResetMessage, <<"reset_password_email">>)

(* auth.py:245-260  reset_password: the provider call inside try, the      *)
(* message after it, and the same message from `except Exception`, which   *)
(* also catches the AttributeError of a handle that is None.               *)
reset_password(h, email, o) ==
    IF h = None
    THEN Answer(HTTP_200, ResetMessage, <<>>)
    ELSE IF o = "raises"
    THEN Answer(HTTP_200, ResetMessage, <<"reset_password_email">>)
    ELSE Answer(HTTP_200, ResetMessage, <<"reset_password_email">>)

ResetPassword ==
    /\ pc = "idle"
    /\ "auth" \in registered
    /\ \E email \in Emails, o \in ResetOutcomes :
          LET r == reset_password(supabase, email, o)
          IN /\ reset' = [email |-> email,
                          provider |-> IF supabase = None THEN "unavailable" ELSE o]
             /\ response' = [status |-> r.status, detail |-> r.detail]
             /\ storeOps' = r.ops
    /\ pc' = "done"
    /\ UNCHANGED <<config, supabase_client, supabase, endpoint, header,
                   credentials, call, bearerStatus, boot, payload, accessor,
                   resolver, store, now, issued>>

NextReset ==
    \/ ResetPassword
    \/ Respond

SpecReset == Init /\ [][NextReset]_vars

============================================================================
